---- MODULE Spec2Model ----
(***************************************************************************)
(* Model of the slack-worker of iab-docs-bot: the Pub/Sub push handler     *)
(* (services/worker/src/index.ts), the Gemini agent loop (gemini.ts) and   *)
(* the MCP tool adapter (mcp.ts).                                          *)
(*                                                                         *)
(* JavaScript runs one handler continuation at a time; handlers interleave *)
(* only at their awaits.  A state of an invocation is therefore the await  *)
(* it is suspended at, and every action is the resolution of one awaited   *)
(* external call followed by the synchronous code up to the next await.    *)
(***************************************************************************)
EXTENDS Integers, Sequences, FiniteSets, TLC

\* ---------------------------------------------------------------- bounds
MaxDeliveries == 2
MaxBatch == 2
MaxFragments == 3

\* ------------------------------------------------------ program constants
MAX_ITERATIONS == 10

HelpMessage == "help"
ConfigErrorAnswer == "config-error"
FallbackAnswer == "fallback"

\* ------------------------------------------------------------ text model
\* A text is a sequence of one-character strings.
WhiteSpace == {" "}
IdChars == {"U", "B", "1"}

\* Length of the match of /<@[A-Z0-9]+>/ that starts at position i of s, or 0.
RECURSIVE IdRun(_, _)
IdRun(s, j) ==
  IF j <= Len(s) /\ s[j] \in IdChars THEN 1 + IdRun(s, j + 1) ELSE 0

MentionAt(s, i) ==
  IF i + 3 <= Len(s) /\ s[i] = "<" /\ s[i + 1] = "@"
  THEN LET n == IdRun(s, i + 2)
       IN IF n >= 1 /\ i + 2 + n <= Len(s) /\ s[i + 2 + n] = ">"
          THEN n + 3 ELSE 0
  ELSE 0

\* text.replace(/<@[A-Z0-9]+>/g, '')
RECURSIVE StripFrom(_, _)
StripFrom(s, i) ==
  IF i > Len(s) THEN << >>
  ELSE LET m == MentionAt(s, i)
       IN IF m > 0 THEN StripFrom(s, i + m)
          ELSE << s[i] >> \o StripFrom(s, i + 1)

StripMentions(s) == StripFrom(s, 1)

\* String.prototype.trim
RECURSIVE TrimLeft(_)
TrimLeft(s) ==
  IF s # << >> /\ Head(s) \in WhiteSpace THEN TrimLeft(Tail(s)) ELSE s

RECURSIVE TrimRight(_)
TrimRight(s) ==
  IF s # << >> /\ s[Len(s)] \in WhiteSpace
  THEN TrimRight(SubSeq(s, 1, Len(s) - 1)) ELSE s

Trim(s) == TrimRight(TrimLeft(s))

\* Variant: only the first addressing token is removed (no g flag).
RECURSIVE StripFirstFrom(_, _)
StripFirstFrom(s, i) ==
  IF i > Len(s) THEN << >>
  ELSE LET m == MentionAt(s, i)
       IN IF m > 0 THEN SubSeq(s, i + m, Len(s))
          ELSE << s[i] >> \o StripFirstFrom(s, i + 1)

ExtractQuestion_FirstOnly(text) == Trim(StripFirstFrom(text, 1))

\* Variant: the text is not trimmed.
ExtractQuestion_NoTrim(text) == StripMentions(text)

\* event.text.replace(/<@[A-Z0-9]+>/g, '').trim()
ExtractQuestion(text) == Trim(StripMentions(text))

\* -------------------------------------------------------- request bodies
Undefined == "undefined"

\* kind: "nodata"  - body without message.data
\*       "badjson" - data that does not decode to JSON
\*       "null"    - data that decodes to JSON null
\*       "event"   - data that decodes to an object (hasText: it has a text)
Body(kind, id, ch, th, hasText, text) ==
  [kind |-> kind, event_id |-> id, channel |-> ch, thread_ts |-> th,
   ts |-> th, hasText |-> hasText, text |-> text]

EventQ ==
  Body("event", "E1", "C1", "T1", TRUE,
       << "<", "@", "U", "1", ">", " ", "q", " ", "<", "@", "B", "1", ">" >>)
EventEmpty == Body("event", "E2", "C2", "T2", TRUE, << " ", "<", "@", "U", "1", ">", " " >>)
EventNoText == Body("event", "E3", "C1", "T3", FALSE, << >>)
BodyNull == Body("null", Undefined, Undefined, Undefined, FALSE, << >>)
BodyBadJson == Body("badjson", Undefined, Undefined, Undefined, FALSE, << >>)
BodyNoData == Body("nodata", Undefined, Undefined, Undefined, FALSE, << >>)

Bodies == {EventQ, EventEmpty, EventNoText, BodyNull, BodyBadJson, BodyNoData}

EventIds == {"E1", "E2", "E3"}

\* ------------------------------------------------------------ the model API
ToolNames == {"search_docs"}

\* The shapes an argument object can have: one that fits the declared input
\* schema of search_docs ({query: string}), and one that does not.
ArgShapes == {"query", "misfit"}

\* The catalog of the session: for each declared tool, the shapes that fit
\* its parameters.
Catalog == [n \in ToolNames |-> {"query"}]

\* A FunctionCall of the model: {name, args}.  Nothing binds the model to the
\* declarations it was given.
RequestedNames == ToolNames \cup {"no_such_tool"}
FunctionCalls == [name : RequestedNames, args : ArgShapes]

\* Whether a call names a tool of the catalog with arguments that fit it.
FitsCatalog(call) ==
  call.name \in DOMAIN Catalog /\ call.args \in Catalog[call.name]

\* The calls of a model that keeps to the declarations it was given.
DeclaredCalls == {call \in FunctionCalls : FitsCatalog(call)}

RECURSIVE SeqsUpTo(_, _)
SeqsUpTo(S, n) ==
  IF n = 0 THEN {<< >>}
  ELSE LET shorter == SeqsUpTo(S, n - 1)
       IN shorter \cup {Append(q, x) : q \in {t \in shorter : Len(t) = n - 1}, x \in S}

\* What response.functionCalls() can hold: up to MaxBatch requested calls,
\* of a model that keeps to the declarations (Batches) or of any model.
Batches == SeqsUpTo(DeclaredCalls, MaxBatch)
AnyBatches == SeqsUpTo(FunctionCalls, MaxBatch)

\* What response.text() can return: nothing, or some text.
ResponseTexts == {"", "text"}

\* ------------------------------------------------------- the tool adapter
\* The content fragments of a CallToolResult: text fragments and others.
TextFragment(t) == [type |-> "text", text |-> t]
ImageFragment == [type |-> "image", text |-> << >>]
Fragments == {TextFragment(<< >>), TextFragment(<< "a" >>),
              TextFragment(<< "b" >>), ImageFragment}
Contents == SeqsUpTo(Fragments, MaxFragments)

\* What mcpClient.callTool does: it rejects, or it resolves with a result
\* {content, isError}, isError being optional.
RejectedCall == [rejects |-> TRUE, content |-> << >>, isError |-> "undefined"]
ToolResults ==
  {RejectedCall} \cup
  [rejects : {FALSE}, content : Contents, isError : {"true", "false", "undefined"}]

\* Array.prototype.join
RECURSIVE Join(_, _)
Join(texts, sep) ==
  IF texts = << >> THEN << >>
  ELSE IF Len(texts) = 1 THEN texts[1]
  ELSE texts[1] \o sep \o Join(Tail(texts), sep)

IsText(c) == c.type = "text"

RECURSIVE TextsOf(_)
TextsOf(fragments) ==
  IF fragments = << >> THEN << >>
  ELSE << Head(fragments).text >> \o TextsOf(Tail(fragments))

\* JSON.stringify of a fragment and of the content array.
FragmentJson(c) ==
  IF IsText(c) THEN << "{", "type:text", "text:" >> \o c.text \o << "}" >>
  ELSE << "{", "type:image", "}" >>

RECURSIVE FragmentsJson(_)
FragmentsJson(fragments) ==
  IF fragments = << >> THEN << >>
  ELSE << FragmentJson(Head(fragments)) >> \o FragmentsJson(Tail(fragments))

Stringify(content) ==
  << "[" >> \o Join(FragmentsJson(content), << "," >>) \o << "]" >>

\* The value of an adapter call that has not returned.
NotCalled == [raised |-> FALSE, content |-> << >>, isError |-> "none"]
Raised == [raised |-> TRUE, content |-> << >>, isError |-> "none"]

\* Variant: a result carrying the error flag is raised.
CallMcpTool_ThrowOnError(result) ==
  IF result.rejects \/ result.isError = "true" THEN Raised
  ELSE LET textContent ==
             Join(TextsOf(SelectSeq(result.content, IsText)), << "\n\n" >>)
       IN [raised |-> FALSE,
           content |-> IF textContent # << >> THEN textContent
                       ELSE Stringify(result.content),
           isError |-> result.isError]

\* callMcpTool once callTool has settled: the rejection goes up to the
\* caller; a result is returned as {content, isError}.
CallMcpTool(result) ==
  IF result.rejects THEN Raised
  ELSE LET textContent ==
             Join(TextsOf(SelectSeq(result.content, IsText)), << "\n\n" >>)
       IN [raised |-> FALSE,
           content |-> IF textContent # << >> THEN textContent
                       ELSE Stringify(result.content),
           isError |-> result.isError]

\* The results behind the three outcomes of a call in a session.
ToolOutcome(outcome) ==
  CASE outcome = "raise" -> RejectedCall
    [] outcome = "isError" ->
         [rejects |-> FALSE, content |-> << TextFragment(<< "a" >>) >>,
          isError |-> "true"]
    [] OTHER ->
         [rejects |-> FALSE, content |-> << TextFragment(<< "a" >>) >>,
          isError |-> "false"]

\* ------------------------------------------------------------------ state
VARIABLES
  inv,        \* the handler invocations, by delivery number
  delivered,  \* deliveries received so far
  store,      \* the processed_events collection: event id -> set of documents
  clock,      \* Timestamp.now()
  mcpClient,  \* mcp.ts's module-level client
  apiKeySet,  \* GEMINI_API_KEY is configured
  adapter     \* a call of callMcpTool: what callTool did, what was returned

vars == << inv, delivered, store, clock, mcpClient, apiKeySet, adapter >>

Invocations == 1 .. MaxDeliveries

\* An invocation that has not been delivered yet.
Idle ==
  [pc |-> "idle", body |-> BodyNoData, status |-> 0, sent |-> 0, reason |-> "",
   question |-> << >>, replyText |-> "", answer |-> "", success |-> FALSE,
   exit |-> "none", iteration |-> 0, msg |-> "none", calls |-> << >>,
   parts |-> << >>, modelCalls |-> 0, toolBatches |-> 0,
   idx |-> 0, toolTurns |-> 0, agentRuns |-> 0, posted |-> {}, stamp |-> 0,
   readOk |-> "none", replyOk |-> "none", markOk |-> "none", after |-> "none",
   tries |-> << >>, retried |-> FALSE, id |-> 0, history |-> << >>]

Init ==
  /\ inv = [i \in Invocations |-> Idle]
  /\ delivered = 0
  /\ store = [e \in EventIds |-> {}]
  /\ clock = 0
  /\ mcpClient = "null"
  /\ apiKeySet \in BOOLEAN
  /\ adapter = [call |-> RejectedCall, ret |-> NotCalled]

\* ------------------------------------------------------- handler helpers
\* Variant: the existence of the document is ignored.
IsEventProcessed_Never(ok, docs) == FALSE

\* Variant: any read that succeeds counts as "processed".
IsEventProcessed_Always(ok, docs) == ok

\* Variant: a failed read counts as "processed" (fail-closed).
IsEventProcessed_FailClosed(ok, docs) == IF ok THEN docs # {} ELSE TRUE

\* isEventProcessed: doc.exists, or false when the read threw.
IsEventProcessed(ok, docs) == IF ok THEN docs # {} ELSE FALSE

\* Variant: the catch block goes on to mark the event.
ProcessingFailed_Marks(r) == [r EXCEPT !.pc = "mark"]

\* Variant: the catch block acknowledges.
ProcessingFailed_Acks(r) ==
  [r EXCEPT !.pc = "done", !.status = 200, !.sent = @ + 1, !.reason = "OK"]

\* The handler's catch block.
ProcessingFailed(r) ==
  [r EXCEPT !.pc = "done", !.status = 500, !.sent = @ + 1,
            !.reason = "Processing failed"]

\* res.status(code).send(reason); return
Respond(r, code, reason) ==
  [r EXCEPT !.pc = "done", !.status = code, !.sent = @ + 1, !.reason = reason]

\* Variant: a malformed body is answered with the retry signal.
Rejected_Retry(r, reason) == Respond(r, 500, reason)

\* res.status(400).send(reason); return
Rejected(r, reason) == Respond(r, 400, reason)

\* Variant: the write error of markEventProcessed reaches the catch block.
AfterMark_Propagates(r, ok) ==
  IF ok THEN Respond(r, 200, "OK") ELSE ProcessingFailed(r)

\* markEventProcessed returns, its write error swallowed; res.status(200).
AfterMark(r, ok) == Respond(r, 200, "OK")

\* Variant: the reply is posted outside the thread.
PostOf_NoThread(r) ==
  [channel |-> r.body.channel, thread_ts |-> Undefined, text |-> r.replyText]

\* slack.chat.postMessage({channel, thread_ts, text})
PostOf(r) ==
  [channel |-> r.body.channel, thread_ts |-> r.body.thread_ts,
   text |-> r.replyText]

\* getClient: the client to use, and where the caller is suspended next.
ClientAfterGet(c) == IF c = "null" THEN "connecting" ELSE c
PcAfterGet(c, next) == IF c = "null" THEN "connect" ELSE next

\* return {answer, success} of generateAnswer: its locals are gone, the
\* handler is suspended in replyToSlack.
AgentReturned(r, answer, success, exit) ==
  [r EXCEPT !.pc = "reply", !.answer = answer, !.success = success,
            !.exit = exit, !.replyText = answer, !.iteration = 0,
            !.msg = "none", !.calls = << >>, !.parts = << >>, !.idx = 0,
            !.after = "none", !.tries = << >>, !.history = << >>]

\* Variant: a failed agent run makes the handler throw.
AgentReturn_ThrowOnFailure(r, answer, success, exit) ==
  IF success
  THEN AgentReturned(r, answer, success, exit)
  ELSE ProcessingFailed([r EXCEPT !.answer = answer, !.success = success,
                                  !.exit = exit])

\* generateAnswer returns {answer, success}; the handler goes on to
\* replyToSlack(event.channel, event.thread_ts, geminiResult.answer).
AgentReturn(r, answer, success, exit) == AgentReturned(r, answer, success, exit)

\* generateAnswer's catch block, reached from getGeminiTools.
CatalogFailed(r) == AgentReturn(r, FallbackAnswer, FALSE, "catalog")

\* Variant: the catch block reports success.
ModelFailed_Succeeds(r) == AgentReturn(r, FallbackAnswer, TRUE, "model")

\* generateAnswer's catch block, reached from chat.sendMessage.
ModelFailed(r) == AgentReturn(r, FallbackAnswer, FALSE, "model")

\* Variant: the API key is not looked at before the tools are fetched.
StartAgent_NoKeyCheck(r, c) ==
  [r EXCEPT !.agentRuns = @ + 1, !.pc = PcAfterGet(c, "listTools"),
            !.after = "listTools"]

\* generateAnswer up to its first await (getGeminiTools -> getClient).
StartAgent(r, c) ==
  LET r1 == [r EXCEPT !.agentRuns = @ + 1]
  IN IF ~apiKeySet
     THEN AgentReturn(r1, ConfigErrorAnswer, FALSE, "nokey")
     ELSE [r1 EXCEPT !.pc = PcAfterGet(c, "listTools"), !.after = "listTools"]

\* The handler's try block, entered when isEventProcessed returned false.
AfterCheck(r, c) ==
  IF ~r.body.hasText
  THEN ProcessingFailed(r)
  ELSE LET q == ExtractQuestion(r.body.text)
       IN IF q = << >>
          THEN [r EXCEPT !.pc = "reply", !.replyText = HelpMessage]
          ELSE StartAgent([r EXCEPT !.question = q], c)

\* Whether AfterCheck reaches getClient.
ReachesGetClient(r) ==
  r.body.hasText /\ ExtractQuestion(r.body.text) # << >> /\ apiKeySet

\* ----------------------------------------------------------------- actions
\* The handler from the arrival of body b up to its first await.  For a
\* payload that decodes to null, event.event_id throws outside the try block
\* and the promise of the handler rejects: the framework either leaves the
\* request unanswered or answers 500 itself, depending on its version.
Accept(b) ==
  LET r == [Idle EXCEPT !.body = b]
  IN CASE b.kind = "nodata" -> {Rejected(r, "Invalid message")}
       [] b.kind = "badjson" -> {Rejected(r, "Invalid message encoding")}
       [] b.kind = "null" -> {[r EXCEPT !.pc = "hung"],
                              Respond(r, 500, "Internal Server Error")}
       [] OTHER -> {[r EXCEPT !.pc = "read"]}

\* The transport pushes a body; the handler runs up to its first await.
Deliver(b) ==
  /\ delivered < MaxDeliveries
  /\ delivered' = delivered + 1
  /\ \E r \in Accept(b) :
       inv' = [inv EXCEPT ![delivered + 1] = [r EXCEPT !.id = delivered + 1]]
  /\ UNCHANGED << store, clock, mcpClient, apiKeySet, adapter >>

\* The transport pushes the body again after the retry signal: a new
\* invocation of the handler takes the place of the one that answered 500.
Redeliver(i) ==
  /\ inv[i].pc = "done"
  /\ inv[i].status = 500
  /\ \E r \in Accept(inv[i].body) :
       inv' = [inv EXCEPT ![i] = [r EXCEPT !.retried = TRUE, !.id = i]]
  /\ UNCHANGED << delivered, store, clock, mcpClient, apiKeySet, adapter >>

\* The Firestore get of isEventProcessed resolves or rejects.
ReadDone(i, ok) ==
  /\ inv[i].pc = "read"
  /\ LET r == [inv[i] EXCEPT !.readOk = IF ok THEN "ok" ELSE "fail"]
         processed == IsEventProcessed(ok, store[r.body.event_id])
     IN IF processed
        THEN /\ inv' = [inv EXCEPT ![i] = Respond(r, 200, "Already processed")]
             /\ UNCHANGED mcpClient
        ELSE /\ inv' = [inv EXCEPT ![i] = AfterCheck(r, mcpClient)]
             /\ mcpClient' = IF ReachesGetClient(r)
                             THEN ClientAfterGet(mcpClient) ELSE mcpClient
  /\ UNCHANGED << delivered, store, clock, apiKeySet, adapter >>

\* slack.chat.postMessage resolves or rejects.
ReplyDone(i, ok) ==
  /\ inv[i].pc = "reply"
  /\ LET r == [inv[i] EXCEPT !.replyOk = IF ok THEN "ok" ELSE "fail"]
     IN IF ok
        THEN /\ inv' = [inv EXCEPT ![i] =
                  [r EXCEPT !.pc = "mark", !.stamp = clock,
                            !.posted = {PostOf(r)}]]
             /\ clock' = clock + 1
        ELSE /\ inv' = [inv EXCEPT ![i] = ProcessingFailed(r)]
             /\ UNCHANGED clock
  /\ UNCHANGED << delivered, store, mcpClient, apiKeySet, adapter >>

\* The Firestore set of markEventProcessed resolves or rejects.
MarkDone(i, ok) ==
  /\ inv[i].pc = "mark"
  /\ LET r == [inv[i] EXCEPT !.markOk = IF ok THEN "ok" ELSE "fail"]
     IN /\ inv' = [inv EXCEPT ![i] = AfterMark(r, ok)]
        /\ store' = IF ok
                    THEN [store EXCEPT ![r.body.event_id] =
                            {[processed_at |-> r.stamp,
                              channel |-> r.body.channel, ts |-> r.body.ts]}]
                    ELSE store
  /\ UNCHANGED << delivered, clock, mcpClient, apiKeySet, adapter >>

\* ------------------------------------------------------ the agent's steps
\* A turn of the chat of the session of invocation r.id.
Turn(r, role) == [chat |-> r.id, role |-> role]

\* Variant: the chat starts from the history of a session in progress.
StartChat_Shared(r) ==
  LET others == {j \in Invocations : inv[j].history # << >>}
  IN IF others = {} THEN << >> ELSE inv[CHOOSE j \in others : TRUE].history

\* model.startChat({history: []})
StartChat(r) == << >>

\* chat.sendMessage(parts) once the for loop over the batch has ended.
SendParts(r) ==
  [r EXCEPT !.pc = "model", !.msg = "parts", !.modelCalls = @ + 1,
            !.after = "none", !.history = Append(@, Turn(r, "function"))]

\* Variant: a call that threw leaves no entry.
PartsAfter_DropErrors(parts, name, kind) ==
  IF kind = "error" THEN parts ELSE Append(parts, [name |-> name, kind |-> kind])

\* parts.push({functionResponse: {name, response}}): the response holds the
\* tool's content, or the error message of a call that threw.
PartsAfter(parts, name, kind) == Append(parts, [name |-> name, kind |-> kind])

\* The rest of the for loop once the current call has left its entry: the
\* next call of the batch (callMcpTool -> getClient -> callTool), or the
\* message to the model.
NextCall(r1, c) ==
  IF r1.idx < Len(r1.calls)
  THEN [r1 EXCEPT !.pc = PcAfterGet(c, "tool"), !.after = "tool",
                  !.idx = @ + 1, !.tries[r1.idx + 1] = @ + 1]
  ELSE SendParts(r1)

\* Variant: a call that threw ends the session.
PushPart_AbortOnError(r, kind, c) ==
  IF kind = "error"
  THEN CatalogFailed(r)
  ELSE NextCall([r EXCEPT !.parts = PartsAfter(@, r.calls[r.idx].name, kind)], c)

\* Variant: a call that threw is made once more before it is given up.
PushPart_RetryOnce(r, kind, c) ==
  IF kind = "error" /\ r.tries[r.idx] < 2
  THEN [r EXCEPT !.pc = PcAfterGet(c, "tool"), !.after = "tool",
                 !.tries[r.idx] = @ + 1]
  ELSE NextCall([r EXCEPT !.parts = PartsAfter(@, r.calls[r.idx].name, kind)], c)

\* One turn of the for loop: parts.push(...) in the try or in the catch
\* branch for the current call, then on to the next.
PushPart(r, kind, c) ==
  NextCall([r EXCEPT !.parts = PartsAfter(@, r.calls[r.idx].name, kind)], c)

\* client.connect resolves or rejects.
ConnectDone(i, ok) ==
  /\ inv[i].pc = "connect"
  /\ LET r == inv[i]
     IN /\ mcpClient' = IF ok THEN "connected" ELSE "failed"
        /\ inv' = [inv EXCEPT ![i] =
             IF ok THEN [r EXCEPT !.pc = r.after]
             ELSE IF r.after = "listTools"
                  THEN CatalogFailed(r)
                  ELSE PushPart(r, "error", "failed")]
  /\ UNCHANGED << delivered, store, clock, apiKeySet, adapter >>

\* mcpClient.listTools resolves or rejects; on success the chat is started
\* and the question is sent.
ListToolsDone(i, ok) ==
  /\ inv[i].pc = "listTools"
  /\ LET r == inv[i]
     IN inv' = [inv EXCEPT ![i] =
          IF ok
          THEN [r EXCEPT !.pc = "model", !.msg = "question",
                         !.modelCalls = @ + 1, !.after = "none",
                         !.history = Append(StartChat(r), Turn(r, "user"))]
          ELSE CatalogFailed(r)]
  /\ UNCHANGED << delivered, store, clock, mcpClient, apiKeySet, adapter >>

\* Variant: the loop test is off by one.
LoopContinues_OffByOne(it) == it <= MAX_ITERATIONS

\* while (iteration < MAX_ITERATIONS)
LoopContinues(it) == it < MAX_ITERATIONS

\* The loop of generateAnswer from the arrival of a model response to the
\* next await: iteration++ after a batch, the loop test, functionCalls().
LoopStep(r, text, calls, c) ==
  LET it == IF r.msg = "parts" THEN r.iteration + 1 ELSE r.iteration
      r1 == [r EXCEPT !.iteration = it,
                      !.toolTurns = IF calls # << >> THEN @ + 1 ELSE @,
                      !.history = Append(@, Turn(r, "model"))]
  IN IF LoopContinues(it) /\ calls # << >>
     THEN [r1 EXCEPT !.pc = PcAfterGet(c, "tool"), !.after = "tool",
                     !.calls = calls, !.parts = << >>, !.idx = 1,
                     !.tries = [k \in 1 .. Len(calls) |-> IF k = 1 THEN 1 ELSE 0],
                     !.toolBatches = @ + 1]
     ELSE AgentReturn(r1, text, TRUE,
                      IF calls = << >> THEN "final" ELSE "bound")

\* chat.sendMessage rejects.
ModelRaise(i) ==
  /\ inv[i].pc = "model"
  /\ inv' = [inv EXCEPT ![i] = ModelFailed(inv[i])]
  /\ UNCHANGED << delivered, store, clock, mcpClient, apiKeySet, adapter >>

\* chat.sendMessage resolves with a response: some text, some requested calls.
ModelRespond(i, text, calls) ==
  /\ inv[i].pc = "model"
  /\ LET r2 == LoopStep(inv[i], text, calls, mcpClient)
     IN /\ inv' = [inv EXCEPT ![i] = r2]
        /\ mcpClient' = IF r2.pc = "connect" THEN "connecting" ELSE mcpClient
  /\ UNCHANGED << delivered, store, clock, apiKeySet, adapter >>

\* mcpClient.callTool resolves (with or without the error flag) or rejects.
ToolDone(i, outcome) ==
  /\ inv[i].pc = "tool"
  /\ LET r2 == PushPart(inv[i],
                        IF CallMcpTool(ToolOutcome(outcome)).raised
                        THEN "error" ELSE "content",
                        mcpClient)
     IN /\ inv' = [inv EXCEPT ![i] = r2]
        /\ mcpClient' = IF r2.pc = "connect" THEN "connecting" ELSE mcpClient
  /\ UNCHANGED << delivered, store, clock, apiKeySet, adapter >>

\* The process terminates: every invocation in flight is lost with the
\* module-level state; the store and the posted replies stay.
InFlight(r) == r.pc \notin {"idle", "done", "crashed"}

Crash ==
  /\ \E i \in Invocations : InFlight(inv[i])
  /\ inv' = [i \in Invocations |->
               IF InFlight(inv[i])
               THEN [Idle EXCEPT !.pc = "crashed", !.body = inv[i].body,
                                 !.posted = inv[i].posted,
                                 !.agentRuns = inv[i].agentRuns]
               ELSE inv[i]]
  /\ mcpClient' = "null"
  /\ UNCHANGED << delivered, store, clock, apiKeySet, adapter >>

Next ==
  \/ \E b \in Bodies : Deliver(b)
  \/ \E i \in Invocations, ok \in BOOLEAN : ReadDone(i, ok)
  \/ \E i \in Invocations, ok \in BOOLEAN : ReplyDone(i, ok)
  \/ \E i \in Invocations, ok \in BOOLEAN : MarkDone(i, ok)
  \/ \E i \in Invocations, ok \in BOOLEAN : ConnectDone(i, ok)
  \/ \E i \in Invocations, ok \in BOOLEAN : ListToolsDone(i, ok)
  \/ \E i \in Invocations : ModelRaise(i)
  \/ \E i \in Invocations, text \in ResponseTexts, calls \in Batches :
       ModelRespond(i, text, calls)
  \/ \E i \in Invocations, outcome \in {"content", "isError", "raise"} :
       ToolDone(i, outcome)
  \/ Crash

Spec == Init /\ [][Next]_vars

\* One delivery at a time in a fresh process: a single handler invocation and
\* the single generateAnswer session it owns, with a model that may request
\* any call.
SessionDeliver(b) == delivered = 0 /\ Deliver(b)

NextSession ==
  \/ \E b \in Bodies : SessionDeliver(b)
  \/ \E i \in Invocations, ok \in BOOLEAN : ReadDone(i, ok)
  \/ \E i \in Invocations, ok \in BOOLEAN : ReplyDone(i, ok)
  \/ \E i \in Invocations, ok \in BOOLEAN : MarkDone(i, ok)
  \/ \E i \in Invocations, ok \in BOOLEAN : ConnectDone(i, ok)
  \/ \E i \in Invocations, ok \in BOOLEAN : ListToolsDone(i, ok)
  \/ \E i \in Invocations : ModelRaise(i)
  \/ \E i \in Invocations, text \in ResponseTexts, calls \in AnyBatches :
       ModelRespond(i, text, calls)
  \/ \E i \in Invocations, outcome \in {"content", "isError", "raise"} :
       ToolDone(i, outcome)
  \/ Crash

SpecSession == Init /\ [][NextSession]_vars

\* One event under at-least-once delivery in a process that stays up: the
\* transport pushes again after every retry signal, every awaited call
\* settles, and the reply sink does not reject for ever.
NextLive ==
  \/ \E b \in Bodies : SessionDeliver(b)
  \/ \E i \in Invocations : Redeliver(i)
  \/ \E i \in Invocations, ok \in BOOLEAN : ReadDone(i, ok)
  \/ \E i \in Invocations, ok \in BOOLEAN : ReplyDone(i, ok)
  \/ \E i \in Invocations, ok \in BOOLEAN : MarkDone(i, ok)
  \/ \E i \in Invocations, ok \in BOOLEAN : ConnectDone(i, ok)
  \/ \E i \in Invocations, ok \in BOOLEAN : ListToolsDone(i, ok)
  \/ \E i \in Invocations : ModelRaise(i)
  \/ \E i \in Invocations, text \in ResponseTexts, calls \in Batches :
       ModelRespond(i, text, calls)
  \/ \E i \in Invocations, outcome \in {"content", "isError", "raise"} :
       ToolDone(i, outcome)

Settles(i) ==
  \/ \E ok \in BOOLEAN : ReadDone(i, ok)
  \/ \E ok \in BOOLEAN : ReplyDone(i, ok)
  \/ \E ok \in BOOLEAN : MarkDone(i, ok)
  \/ \E ok \in BOOLEAN : ConnectDone(i, ok)
  \/ \E ok \in BOOLEAN : ListToolsDone(i, ok)
  \/ ModelRaise(i)
  \/ \E text \in ResponseTexts, calls \in Batches : ModelRespond(i, text, calls)
  \/ \E outcome \in {"content", "isError", "raise"} : ToolDone(i, outcome)

Fairness ==
  \A i \in Invocations :
    /\ WF_vars(Settles(i))
    /\ WF_vars(Redeliver(i))
    /\ SF_vars(ReplyDone(i, TRUE))

SpecLive == Init /\ [][NextLive]_vars /\ Fairness

\* The adapter alone: callTool settles in any of its ways and callMcpTool
\* returns or raises.
InitAdapter ==
  /\ inv = [i \in Invocations |-> Idle]
  /\ delivered = 0
  /\ store = [e \in EventIds |-> {}]
  /\ clock = 0
  /\ mcpClient = "connected"
  /\ apiKeySet = TRUE
  /\ adapter \in [call : ToolResults, ret : {NotCalled}]

CallToolDone ==
  /\ adapter.ret = NotCalled
  /\ adapter' = [adapter EXCEPT !.ret = CallMcpTool(adapter.call)]
  /\ UNCHANGED << inv, delivered, store, clock, mcpClient, apiKeySet >>

NextAdapter == CallToolDone

SpecAdapter == InitAdapter /\ [][NextAdapter]_vars

TypeOK ==
  /\ delivered \in 0 .. MaxDeliveries
  /\ mcpClient \in {"null", "connecting", "connected", "failed"}
  /\ \A i \in Invocations :
       /\ inv[i].iteration \in 0 .. MAX_ITERATIONS
       /\ inv[i].sent \in 0 .. 1
       /\ inv[i].status \in {0, 200, 400, 500}

\* ================================================================ claims
IsEvent(i) == inv[i].body.kind = "event"
SameEvent(i, j) == IsEvent(i) /\ IsEvent(j) /\ inv[i].body.event_id = inv[j].body.event_id

\* A delivery of event e has completed successfully: reply dispatched and
\* marker written.
Handled(e) ==
  \E j \in Invocations :
    /\ IsEvent(j) /\ inv[j].body.event_id = e
    /\ inv[j].pc = "done" /\ inv[j].posted # {} /\ inv[j].markOk = "ok"

\* C1: once a delivery of an event has completed successfully, a delivery of
\* the same event whose ledger read succeeds answers 200 and does nothing
\* else: no reply, no agent run, no model or tool call, no ledger write.
C1_AckWithoutEffects ==
  [][\A i \in Invocations :
       (/\ inv[i].pc = "read"
        /\ Handled(inv[i].body.event_id)
        /\ inv'[i].readOk = "ok")
       => /\ inv'[i].pc = "done"
          /\ inv'[i].status = 200
          /\ inv'[i].sent = 1
          /\ inv'[i].posted = {}
          /\ inv'[i].agentRuns = 0
          /\ inv'[i].modelCalls = 0
          /\ inv'[i].toolBatches = 0
          /\ inv'[i].replyOk = "none"
          /\ inv'[i].markOk = "none"
          /\ store' = store
          /\ mcpClient' = mcpClient
          /\ clock' = clock]_vars

C1_Witness ==
  \E i, j \in Invocations :
    /\ i # j /\ SameEvent(i, j)
    /\ inv[j].markOk = "ok" /\ inv[j].posted # {}
    /\ inv[i].readOk = "ok" /\ inv[i].status = 200 /\ inv[i].posted = {}

\* C2: a marker is written only after the reply sink accepted a reply of the
\* same invocation; every marker in the store belongs to an event for which
\* a reply was accepted.
C2_MarkerOnlyAfterReply ==
  /\ \A i \in Invocations :
       (inv[i].pc = "mark" \/ inv[i].markOk # "none")
       => /\ inv[i].replyOk = "ok"
          /\ \E p \in inv[i].posted : p.thread_ts = inv[i].body.thread_ts
  /\ \A e \in EventIds :
       store[e] # {}
       => \E i \in Invocations :
            IsEvent(i) /\ inv[i].body.event_id = e /\ inv[i].posted # {}

C2_Witness ==
  /\ store["E1"] # {}
  /\ store["E2"] # {}

\* The invocation threw inside the handler's try block: the reply was
\* rejected, or the question could not be extracted.
Threw(i) ==
  \/ inv[i].replyOk = "fail"
  \/ /\ IsEvent(i) /\ ~inv[i].body.hasText
     /\ inv[i].readOk # "none" /\ inv[i].reason # "Already processed"

\* C3: when the reply is rejected or the try block throws, the handler
\* answers 500 and writes no marker, so that a store without a successful
\* write for the event holds no marker for it.
C3_RetryWithoutMarker ==
  /\ \A i \in Invocations :
       Threw(i) => /\ inv[i].pc = "done"
                   /\ inv[i].status = 500
                   /\ inv[i].sent = 1
                   /\ inv[i].markOk = "none"
  /\ \A e \in EventIds :
       (\A j \in Invocations :
          (IsEvent(j) /\ inv[j].body.event_id = e) => inv[j].markOk # "ok")
       => store[e] = {}

C3_Witness ==
  \E i \in Invocations :
    /\ inv[i].replyOk = "fail" /\ inv[i].agentRuns = 1
    /\ inv[i].status = 500 /\ store[inv[i].body.event_id] = {}

\* The ledger worked and the process lived throughout.
LedgerWorked ==
  \A i \in Invocations :
    inv[i].readOk # "fail" /\ inv[i].markOk # "fail" /\ inv[i].pc # "crashed"

\* C4: with a working ledger, whatever the interleaving of the deliveries of
\* one event, the agent runs and a reply is dispatched at most once for it.
C4_AtMostOnce ==
  LedgerWorked
  => \A i, j \in Invocations :
       (i # j /\ SameEvent(i, j))
       => ~(/\ inv[i].agentRuns > 0 /\ inv[i].posted # {}
            /\ inv[j].agentRuns > 0 /\ inv[j].posted # {})

\* The process terminated after a reply for e was dispatched and before
\* its marker was written, and no marker for e exists.
LostMarker(e) ==
  /\ store[e] = {}
  /\ \E i \in Invocations :
       /\ IsEvent(i) /\ inv[i].body.event_id = e
       /\ inv[i].pc = "crashed" /\ inv[i].posted # {}

\* C5: after a crash between reply and marker, a delivery of the event is
\* not answered "Already processed": its ledger check lets it into the
\* pipeline, and it acknowledges only with a reply of its own.
C5_RedeliveryAfterCrash ==
  [][\A k \in Invocations :
       (IsEvent(k) /\ LostMarker(inv[k].body.event_id))
       => /\ (inv[k].pc = "read" /\ inv'[k].pc \notin {"read", "crashed"})
             => /\ inv'[k].reason # "Already processed"
                /\ inv'[k].pc \in {"reply", "connect", "listTools"}
                /\ inv'[k].agentRuns = 1 \/ inv'[k].replyText = HelpMessage
          /\ (inv[k].status = 0 /\ inv'[k].status = 200)
             => inv'[k].posted # {}]_vars

C5_Witness ==
  \E i, k \in Invocations :
    /\ i < k /\ SameEvent(i, k)
    /\ inv[i].pc = "crashed" /\ inv[i].posted # {}
    /\ inv[k].readOk = "ok" /\ inv[k].status = 200 /\ inv[k].posted # {}
    /\ inv[k].stamp > 0

\* C6: the loop runs at most MAX_ITERATIONS cycles; when every model response
\* requested a tool call, generateAnswer returns after exactly MAX_ITERATIONS
\* tool batches and MAX_ITERATIONS + 1 model calls.
C6_BoundedIteration ==
  \A i \in Invocations :
    /\ inv[i].iteration <= MAX_ITERATIONS
    /\ inv[i].toolBatches <= MAX_ITERATIONS
    /\ inv[i].modelCalls <= MAX_ITERATIONS + 1
    /\ (inv[i].exit \in {"final", "bound"} /\ inv[i].toolTurns = inv[i].modelCalls)
       => /\ inv[i].exit = "bound"
          /\ inv[i].toolBatches = MAX_ITERATIONS
          /\ inv[i].modelCalls = MAX_ITERATIONS + 1
    /\ inv[i].exit = "bound" => inv[i].toolTurns = inv[i].modelCalls

C6_Witness ==
  \E i \in Invocations :
    /\ inv[i].pc = "reply" /\ inv[i].exit = "bound"
    /\ inv[i].toolBatches = MAX_ITERATIONS

\* C7: when the bound is reached without a terminal answer, generateAnswer
\* returns a non-empty answer with success = false.
C7_FallbackAtBound ==
  \A i \in Invocations :
    inv[i].exit = "bound" => (inv[i].answer # "" /\ inv[i].success = FALSE)

\* C8: the message sent to the model after a batch of N requested calls holds
\* exactly N results, one per call in order, errors included; no model call is
\* issued while a call of the batch is outstanding.
C8_BatchAtomicity ==
  \A i \in Invocations :
    /\ (inv[i].pc = "model" /\ inv[i].msg = "parts")
       => /\ Len(inv[i].parts) = Len(inv[i].calls)
          /\ \A k \in 1 .. Len(inv[i].calls) : inv[i].parts[k].name = inv[i].calls[k].name
    /\ inv[i].pc = "tool"
       => /\ inv[i].idx <= Len(inv[i].calls)
          /\ Len(inv[i].parts) = inv[i].idx - 1
          /\ inv[i].modelCalls = inv[i].toolBatches
    /\ inv[i].pc = "model" => inv[i].modelCalls = inv[i].toolBatches + 1

C8_Witness ==
  \E i \in Invocations :
    /\ inv[i].pc = "model" /\ inv[i].msg = "parts"
    /\ Len(inv[i].calls) = MaxBatch /\ Len(inv[i].parts) = MaxBatch
    /\ inv[i].parts[1].kind = "error"
    /\ inv[i].parts[MaxBatch].kind = "content"

\* C9: for a text that is only an addressing token, the handler replies the
\* help message to the event's thread, marks the event, answers 200, and
\* never runs the agent, the model or a tool.
C9_EmptyQuestion ==
  \A i \in Invocations :
    inv[i].body = EventEmpty
    => /\ inv[i].agentRuns = 0
       /\ inv[i].modelCalls = 0
       /\ inv[i].toolBatches = 0
       /\ (inv[i].readOk # "none" /\ inv[i].reason # "Already processed")
          => inv[i].pc \in {"reply", "mark", "done"}
       /\ inv[i].pc = "reply" => inv[i].replyText = HelpMessage
       /\ inv[i].replyOk = "ok"
          => /\ inv[i].posted = {[channel |-> EventEmpty.channel,
                                   thread_ts |-> EventEmpty.thread_ts,
                                   text |-> HelpMessage]}
             /\ inv[i].pc \in {"mark", "done"}
             /\ inv[i].pc = "done" => (inv[i].status = 200 /\ inv[i].markOk # "none")
       /\ inv[i].markOk = "ok" => store[EventEmpty.event_id] # {}

C9_Witness ==
  \E i \in Invocations :
    /\ inv[i].body = EventEmpty
    /\ inv[i].status = 200 /\ inv[i].reason = "OK"
    /\ inv[i].markOk = "ok" /\ inv[i].posted # {}

\* C10: a failed ledger read counts as "not processed" and raises nothing:
\* the handler goes on to run the agent and to reply, and it answers 500 only
\* when the try block threw.
C10_FailOpen ==
  \A i \in Invocations :
    inv[i].readOk = "fail"
    => /\ inv[i].reason # "Already processed"
       /\ inv[i].pc \notin {"read", "hung"}
       /\ inv[i].status # 400
       /\ inv[i].body = EventQ => inv[i].agentRuns = 1
       /\ inv[i].status = 200 => inv[i].posted # {}
       /\ inv[i].status = 500 => Threw(i)

C10_Witness ==
  \E i \in Invocations :
    /\ inv[i].readOk = "fail"
    /\ store[inv[i].body.event_id] # {}
    /\ inv[i].agentRuns = 1 /\ inv[i].modelCalls > 0
    /\ inv[i].status = 200 /\ inv[i].posted # {}

\* C11: a failed marker write does not fail the delivery: the handler still
\* answers 200, once, after the reply it dispatched.
C11_MarkFailureSwallowed ==
  \A i \in Invocations :
    inv[i].markOk = "fail"
    => /\ inv[i].pc = "done"
       /\ inv[i].status = 200
       /\ inv[i].sent = 1
       /\ inv[i].replyOk = "ok"
       /\ inv[i].posted # {}

C11_Witness ==
  \E i \in Invocations :
    /\ inv[i].markOk = "fail" /\ inv[i].status = 200
    /\ inv[i].agentRuns = 1
    /\ store[inv[i].body.event_id] = {}

\* generateAnswer has returned for invocation i.
Returned(i) == inv[i].exit # "none"

\* C12 as claimed: a failed catalog load or a raising model call yields the
\* fallback answer with success = false (and no model call when the catalog
\* failed), and success = false comes from nothing else.
C12_FailedOnlyOnCatalogOrModel ==
  \A i \in Invocations :
    /\ inv[i].exit \in {"catalog", "model"}
       => /\ inv[i].answer = FallbackAnswer
          /\ inv[i].success = FALSE
          /\ inv[i].pc \in {"reply", "mark", "done"}
    /\ inv[i].exit = "catalog" => inv[i].modelCalls = 0
    /\ (Returned(i) /\ ~inv[i].success) => inv[i].exit \in {"catalog", "model"}

\* C12 as amended: as above, but success = false is also returned, with the
\* configuration-error answer and no model call, when GEMINI_API_KEY is unset.
C12_FailedConditions ==
  \A i \in Invocations :
    /\ inv[i].exit \in {"catalog", "model"}
       => /\ inv[i].answer = FallbackAnswer
          /\ inv[i].success = FALSE
          /\ inv[i].pc \in {"reply", "mark", "done"}
    /\ inv[i].exit = "catalog" => inv[i].modelCalls = 0
    /\ (Returned(i) /\ ~inv[i].success)
       => \/ inv[i].exit \in {"catalog", "model"}
          \/ /\ inv[i].exit = "nokey" /\ ~apiKeySet
             /\ inv[i].answer = ConfigErrorAnswer
             /\ inv[i].modelCalls = 0
    /\ (Returned(i) /\ inv[i].success) => inv[i].exit \in {"final", "bound"}

C12_Witness ==
  \E i \in Invocations :
    /\ inv[i].pc = "reply" /\ inv[i].exit = "model"
    /\ inv[i].toolBatches > 0 /\ inv[i].answer = FallbackAnswer

\* C13: whatever the outcome of a tool call, its resolution appends the entry
\* of that call and moves on to the next call or to the message for the
\* model, which then holds every entry; the session never returns from it.
C13_ToolErrorsFedBack ==
  [][\A i \in Invocations :
       (inv[i].pc = "tool" /\ inv'[i] # inv[i] /\ inv'[i].pc # "crashed")
       => /\ inv'[i].exit = "none"
          /\ inv'[i].pc \in {"tool", "connect", "model"}
          /\ Len(inv'[i].parts) = Len(inv[i].parts) + 1
          /\ inv'[i].parts[Len(inv'[i].parts)].name = inv[i].calls[inv[i].idx].name
          /\ inv'[i].pc = "model"
             => /\ inv'[i].msg = "parts"
                /\ Len(inv'[i].parts) = Len(inv[i].calls)
                /\ inv'[i].modelCalls = inv[i].modelCalls + 1]_vars

C13_Witness ==
  \E i \in Invocations :
    /\ inv[i].pc = "tool" /\ inv[i].idx = 2
    /\ inv[i].parts[1].kind = "error"
    /\ inv[i].iteration > 0

\* C14: when the agent returns success = false the handler dispatches that
\* answer, marks the event and answers 200; it answers 500 only when the
\* reply itself was rejected.  The agent ran once.
C14_AgentFailureIsAcked ==
  \A i \in Invocations :
    (Returned(i) /\ ~inv[i].success)
    => /\ inv[i].agentRuns = 1
       /\ inv[i].pc \in {"reply", "mark", "done"}
       /\ inv[i].replyText = inv[i].answer
       /\ inv[i].answer \in {FallbackAnswer, ConfigErrorAnswer}
       /\ inv[i].status = 500 => inv[i].replyOk = "fail"
       /\ inv[i].replyOk = "ok"
          => /\ \E p \in inv[i].posted : p.text = inv[i].answer
             /\ inv[i].pc \in {"mark", "done"}
             /\ inv[i].pc = "done" => (inv[i].status = 200 /\ inv[i].markOk # "none")
       /\ inv[i].markOk = "ok" => store[inv[i].body.event_id] # {}

C14_Witness ==
  \E i \in Invocations :
    /\ inv[i].exit = "catalog" /\ ~inv[i].success
    /\ inv[i].status = 200 /\ inv[i].markOk = "ok"
    /\ \E p \in inv[i].posted : p.text = FallbackAnswer

\* C15: a body without message.data, or whose data does not decode to JSON,
\* is answered 400 at once: no ledger read or write, no agent run, no reply.
C15_MalformedRejected ==
  \A i \in Invocations :
    (inv[i].pc # "idle" /\ inv[i].body.kind \in {"nodata", "badjson"})
    => /\ inv[i].pc = "done"
       /\ inv[i].status = 400
       /\ inv[i].sent = 1
       /\ inv[i].readOk = "none"
       /\ inv[i].replyOk = "none"
       /\ inv[i].markOk = "none"
       /\ inv[i].agentRuns = 0
       /\ inv[i].modelCalls = 0
       /\ inv[i].posted = {}

C15_Witness ==
  \E i, j \in Invocations :
    /\ inv[i].body = BodyBadJson /\ inv[i].status = 400
    /\ inv[j].body = BodyNoData /\ inv[j].status = 400

\* The process has lived since the first delivery.
NoCrash == \A k \in Invocations : inv[k].pc # "crashed"

\* listTools resolved for session j (the question is sent right after it).
CatalogFetched(j) == inv[j].modelCalls > 0

\* C16: once a session of the process has fetched the catalog, a session
\* that starts afterwards in the same process issues no listTools request.
C16_CatalogCached ==
  [][\A i \in Invocations :
       (NoCrash /\ \E j \in Invocations : j # i /\ CatalogFetched(j))
       => ~(inv[i].pc = "read" /\ inv'[i].pc = "listTools")]_vars

\* The batch of session i has been sent to the model.
BatchSent(i) == inv[i].pc = "model" /\ inv[i].msg = "parts"

\* C17 as claimed: a call that failed at the transport was attempted a second
\* time before it was given up.
C17_RetriedOnce ==
  \A i \in Invocations :
    BatchSent(i)
    => \A k \in 1 .. Len(inv[i].parts) :
         inv[i].parts[k].kind = "error" => inv[i].tries[k] = 2

\* C17 as amended: every call of a batch is attempted exactly once; a call
\* that failed leaves its error entry and the batch goes on.
C17_SingleAttempt ==
  \A i \in Invocations :
    /\ inv[i].pc = "tool"
       => \A k \in 1 .. Len(inv[i].calls) :
            inv[i].tries[k] = (IF k <= inv[i].idx THEN 1 ELSE 0)
    /\ BatchSent(i)
       => /\ Len(inv[i].parts) = Len(inv[i].calls)
          /\ \A k \in 1 .. Len(inv[i].calls) : inv[i].tries[k] = 1

C17_Witness ==
  \E i \in Invocations :
    /\ BatchSent(i)
    /\ Len(inv[i].calls) = MaxBatch
    /\ \A k \in 1 .. MaxBatch :
         inv[i].parts[k].kind = "error" /\ inv[i].tries[k] = 1

\* C18: a marker, once written, keeps its fields.
C18_MarkerImmutable ==
  [][\A e \in EventIds : store[e] # {} => store'[e] = store[e]]_vars

\* C19: every reply is posted to the channel and the thread of the event of
\* the invocation that posts it, and an invocation posts at most once.
C19_ReplyAnchored ==
  \A i \in Invocations :
    /\ Cardinality(inv[i].posted) <= 1
    /\ \A p \in inv[i].posted :
         /\ IsEvent(i)
         /\ p.channel = inv[i].body.channel
         /\ p.thread_ts = inv[i].body.thread_ts
         /\ p.thread_ts # Undefined

C19_Witness ==
  \E i, j \in Invocations :
    /\ inv[i].body = EventQ /\ inv[j].body = EventEmpty
    /\ inv[i].pc = "mark" /\ inv[j].pc = "mark"
    /\ \E p \in inv[i].posted : p.thread_ts = "T1"
    /\ \E p \in inv[j].posted : p.thread_ts = "T2"

\* A call of a batch has been forwarded to the search capability when the
\* session is suspended in mcpClient.callTool for it.
Forwarded(i, k) == inv[i].pc = "tool" /\ inv[i].idx = k

\* C20: each entry sent to the model names exactly one request of its batch.
C20_MatchedByCallId ==
  \A i \in Invocations :
    BatchSent(i)
    => \A k \in 1 .. Len(inv[i].parts) :
         Cardinality({j \in 1 .. Len(inv[i].calls) :
                        inv[i].calls[j].name = inv[i].parts[k].name}) = 1

\* C21: only calls that name a tool of the catalog with arguments fitting its
\* declared schema are forwarded to the search capability.
C21_ValidatedBeforeInvocation ==
  \A i \in Invocations :
    \A k \in 1 .. Len(inv[i].calls) :
      Forwarded(i, k) => FitsCatalog(inv[i].calls[k])

\* Some addressing token starts in s.
HasMention(s) == \E k \in 1 .. Len(s) : MentionAt(s, k) > 0

\* C22: the question the agent is invoked with is the event's text without
\* its addressing tokens and without surrounding whitespace, and it is not
\* empty; a text that leaves nothing never reaches the agent.
C22_QuestionExtracted ==
  \A i \in Invocations :
    /\ (inv[i].agentRuns > 0 /\ inv[i].pc # "crashed")
       => /\ inv[i].body.hasText
          /\ inv[i].question = Trim(StripMentions(inv[i].body.text))
          /\ inv[i].question # << >>
          /\ ~HasMention(inv[i].question)
          /\ Head(inv[i].question) \notin WhiteSpace
          /\ inv[i].question[Len(inv[i].question)] \notin WhiteSpace
    /\ (inv[i].body.hasText /\ Trim(StripMentions(inv[i].body.text)) = << >>)
       => inv[i].agentRuns = 0

C22_Witness ==
  \E i \in Invocations :
    /\ inv[i].body = EventQ /\ HasMention(Tail(inv[i].body.text))
    /\ inv[i].agentRuns = 1 /\ inv[i].modelCalls > 0
    /\ inv[i].question = << "q" >>

\* The texts of the text fragments of a content, in order, each followed by
\* the separator.
RECURSIVE SeparatedTexts(_)
SeparatedTexts(content) ==
  IF content = << >> THEN << >>
  ELSE (IF Head(content).type = "text"
        THEN Head(content).text \o << "\n\n" >> ELSE << >>)
       \o SeparatedTexts(Tail(content))

\* C23: callMcpTool returns one text: the texts of the text fragments in
\* order, joined, other fragments dropped, or the serialised content when
\* that text is empty; an error-flagged result is returned with its flag, and
\* only a rejected callTool is raised.
C23_ResultNormalised ==
  adapter.ret # NotCalled
  => LET result == adapter.call
         ret == adapter.ret
         text == SeparatedTexts(result.content)
     IN /\ ret.raised = result.rejects
        /\ ~result.rejects
           => /\ ret.isError = result.isError
              /\ ret.content # << >>
              /\ Len(text) > 1
                 => ret.content = SubSeq(text, 1, Len(text) - 1)
              /\ Len(text) <= 1
                 => /\ Head(ret.content) = "["
                    /\ Len(SelectSeq(ret.content, LAMBDA x : x = "{"))
                         = Len(result.content)

C23_Witness ==
  /\ adapter.call.content =
       << TextFragment(<< "a" >>), ImageFragment, TextFragment(<< "b" >>) >>
  /\ adapter.call.isError = "true"
  /\ adapter.ret = [raised |-> FALSE, content |-> << "a", "\n\n", "b" >>,
                    isError |-> "true"]

\* C24: an acknowledged delivery of an event has a reply behind it: its own,
\* accepted before the 200, or, when it was answered "Already processed", the
\* reply of the invocation that wrote the marker.
C24_NoSilentDrop ==
  \A i \in Invocations :
    (IsEvent(i) /\ inv[i].status = 200)
    => \/ inv[i].replyOk = "ok" /\ inv[i].posted # {}
       \/ /\ inv[i].reason = "Already processed"
          /\ \E j \in Invocations :
               /\ j # i /\ SameEvent(i, j)
               /\ inv[j].posted # {} /\ inv[j].markOk = "ok"

C24_Witness ==
  \E i, j \in Invocations :
    /\ i # j /\ SameEvent(i, j)
    /\ inv[i].status = 200 /\ inv[i].reason = "Already processed"
    /\ inv[j].status = 200 /\ inv[j].reason = "OK"
    /\ inv[j].agentRuns = 1 /\ inv[j].posted # {}

\* A delivery of a well-formed event: an object with its text.
WellFormed(i) == IsEvent(i) /\ inv[i].body.hasText

\* C25: under redelivery after every retry signal and a reply sink that
\* eventually accepts, every delivered well-formed event ends with a reply
\* dispatched and 200; a retried delivery finds no marker, is not answered
\* "Already processed", and starts the agent (or the help reply) afresh.
C25_EventuallyAnswered ==
  /\ [](\A i \in Invocations :
          (inv[i].retried /\ inv[i].pc = "read")
          => store[inv[i].body.event_id] = {})
  /\ [][\A i \in Invocations :
          (inv[i].retried /\ inv[i].pc = "read" /\ inv'[i].pc # "read"
           /\ WellFormed(i))
          => /\ inv'[i].reason # "Already processed"
             /\ inv'[i].posted = {}
             /\ \/ inv'[i].replyText = HelpMessage /\ inv'[i].agentRuns = 0
                \/ /\ inv'[i].agentRuns = 1
                   /\ inv'[i].modelCalls = 0
                   /\ inv'[i].iteration = 0
                   /\ inv'[i].parts = << >>]_vars
  /\ \A i \in Invocations :
       WellFormed(i)
       ~> (inv[i].pc = "done" /\ inv[i].status = 200 /\ inv[i].posted # {})

C25_Witness ==
  \E i \in Invocations :
    /\ WellFormed(i) /\ inv[i].retried
    /\ inv[i].agentRuns = 1 /\ inv[i].modelCalls > 0
    /\ inv[i].status = 200 /\ inv[i].posted # {}

\* Invocation i is suspended in a request on the shared client.
OnClient(i) == inv[i].pc \in {"listTools", "tool"}

\* C26: a listTools or callTool request is outstanding only on a client whose
\* connect has completed, and a process creates a client only when it has
\* none.
C26_ClientSafe ==
  /\ [](\A i \in Invocations : OnClient(i) => mcpClient = "connected")
  /\ [][(mcpClient' = "connecting" /\ mcpClient # "connecting")
        => mcpClient = "null"]_vars

\* C29: no invocation goes into a listTools or callTool request on a client
\* whose connect failed; it connects anew.
C29_FailedConnectNotCached ==
  [][\A i \in Invocations :
       (inv'[i] # inv[i] /\ OnClient(i)')
       => mcpClient' # "failed"]_vars

\* The turns of the chat of session i.
TurnsOf(i) == {inv[i].history[k] : k \in 1 .. Len(inv[i].history)}

\* C27: the chat of a session starts with its own question and holds only
\* turns of that session; two sessions have no turn in common.
C27_SessionOwned ==
  \A i \in Invocations :
    /\ inv[i].history # << >>
       => /\ inv[i].history[1] = [chat |-> i, role |-> "user"]
          /\ inv[i].question = Trim(StripMentions(inv[i].body.text))
          /\ Len(inv[i].history) = inv[i].modelCalls + inv[i].toolTurns
    /\ \A t \in TurnsOf(i) : t.chat = i
    /\ \A j \in Invocations : j # i => TurnsOf(i) \cap TurnsOf(j) = {}

C27_Witness ==
  \E i, j \in Invocations :
    /\ i # j /\ SameEvent(i, j)
    /\ Len(inv[i].history) > 2 /\ Len(inv[j].history) > 2
    /\ inv[i].pc = "tool" /\ inv[j].pc = "model"

\* The handler of invocation i has run to its end.
Ended(i) == inv[i].pc \in {"done", "hung"}

\* C28: every invocation of the handler that has ended has sent exactly one
\* of 200, 400 and 500, whatever the body; none sends twice.
C28_ExactlyOneSignal ==
  \A i \in Invocations :
    /\ inv[i].sent <= 1
    /\ Ended(i) => (inv[i].sent = 1 /\ inv[i].status \in {200, 400, 500})
    /\ inv[i].sent = 1 => Ended(i)

\* C30: an invocation that answered 500 had no reply accepted and wrote no
\* marker.
C30_RetryWithoutReply ==
  \A i \in Invocations :
    inv[i].status = 500
    => /\ inv[i].posted = {}
       /\ inv[i].replyOk # "ok"
       /\ inv[i].markOk = "none"

C30_Witness ==
  \E i, j \in Invocations :
    /\ i < j /\ SameEvent(i, j)
    /\ inv[i].status = 500 /\ inv[i].replyOk = "fail" /\ inv[i].posted = {}
    /\ inv[j].status = 200 /\ Cardinality(inv[j].posted) = 1

\* C31: without GEMINI_API_KEY the process never connects to the search
\* capability and no session fetches the catalog or calls the model or a
\* tool; generateAnswer returns the configuration-error answer with
\* success = false, and the handler dispatches it, writes the marker and
\* answers 200.
C31_MissingKey ==
  /\ ~apiKeySet
     => /\ mcpClient = "null"
        /\ \A i \in Invocations :
             /\ inv[i].pc \notin {"connect", "listTools", "model", "tool"}
             /\ inv[i].modelCalls = 0 /\ inv[i].toolBatches = 0
             /\ (inv[i].agentRuns > 0 /\ inv[i].pc # "crashed")
                => inv[i].exit = "nokey"
  /\ \A i \in Invocations :
       inv[i].exit = "nokey"
       => /\ ~apiKeySet
          /\ inv[i].answer = ConfigErrorAnswer
          /\ inv[i].success = FALSE
          /\ inv[i].agentRuns = 1
          /\ inv[i].pc \in {"reply", "mark", "done"}
          /\ inv[i].replyText = ConfigErrorAnswer
          /\ inv[i].replyOk = "ok"
             => /\ inv[i].posted =
                     {[channel |-> inv[i].body.channel,
                       thread_ts |-> inv[i].body.thread_ts,
                       text |-> ConfigErrorAnswer]}
                /\ inv[i].pc \in {"mark", "done"}
                /\ inv[i].pc = "done"
                   => (inv[i].status = 200 /\ inv[i].markOk # "none")
          /\ inv[i].markOk = "ok" => store[inv[i].body.event_id] # {}
          /\ inv[i].status = 500 => inv[i].replyOk = "fail"

C31_Witness ==
  \E i \in Invocations :
    /\ ~apiKeySet /\ inv[i].exit = "nokey"
    /\ inv[i].status = 200 /\ inv[i].markOk = "ok"
    /\ store[inv[i].body.event_id] # {}
    /\ \E p \in inv[i].posted : p.text = ConfigErrorAnswer

====
